---- MODULE Spec2Model ----
(***************************************************************************)
(* AI Attendance: the Attendance Store handlers of main.py and the         *)
(* per-room Capture Loop of edge_agent.py.                                 *)
(*                                                                         *)
(* Time is in seconds since the epoch.  A datetime is a record             *)
(* [wall, off]: the wall-clock reading and its UTC offset (a naive         *)
(* datetime has off = 0, which is how the driver stores it).  An Optional  *)
(* value is a sequence of length 0 (None) or 1.                            *)
(***************************************************************************)
EXTENDS Integers, Sequences, FiniteSets, TLC

\* ---------------------------------------------------------------- bounds
MaxDocs == 2
NThreads == 2
MaxStep == 1
MaxStudents == 3
MaxRoster == 2
MaxFaces == 2
MaxEnc == 2
MaxDen == 4
MaxPixel == 4
MaxUnknown == 3

\* ------------------------------------------------------- program constants
SecondsPerDay == 86400
Cooldown == 10
MinEncodingLen == 128

\* ------------------------------------------------------------ input sets
Students == {"S1", "S2"}
Rooms == {"R1", "R2"}
Sources == {"agent"}

\* the (student_id, room_id) pairs of the requests: one student in two rooms,
\* two students in one room
Keys == (Students \X Rooms) \ {<<"S2", "R2">>}

\* 12:00:05Z of day 0, 23:30-05:00 of day 0 (04:30Z of day 1), 10:00Z of day 1
Timestamps ==
  { [wall |-> 43205, off |-> 0],
    [wall |-> 84600, off |-> -18000],
    [wall |-> 122400, off |-> 0] }

OptTimestamps == {<<>>} \cup { <<t>> : t \in Timestamps }

\* what the agent and the manual override send: UTC readings, or none
UtcOptTimestamps == {<<>>} \cup { <<t>> : t \in { u \in Timestamps : u.off = 0 } }

Threads == 1..NThreads

VARIABLES
  clock,        \* the wall clock (UTC seconds), read by utcnow() and time.time()
  attendance,   \* db["attendance"], in insertion order
  unknown,      \* db["unknown"], in insertion order
  resp,         \* Optional: the document returned by the last store request
  branch,       \* which way the last mark request went: "none", "existing", "created"
  th,           \* per server thread: where its mark_attendance call stands
  students,     \* db["student"] as GET /students returns it
  pc,           \* where main() of the edge agent stands
  cam_ok,       \* whether the camera currently delivers frames
  args,         \* the command line: tolerance, unknown
  known,        \* known_encodings, known_ids, known_names
  last_mark,    \* the dict last_mark
  faces,        \* how many (encoding, location) pairs of the frame are still to be processed
  key,          \* the operator has pressed q and waitKey has not yet seen it
  out           \* Optional: what processing the latest face of the frame did

storeVars == <<attendance, unknown, resp, branch, th>>
agentVars == <<students, pc, cam_ok, args, known, last_mark, faces, key, out>>
vars == <<clock, storeVars, agentVars>>

\* ------------------------------------------------------------- utilities
SetMin(S) == CHOOSE x \in S : \A y \in S : x <= y

\* ts.date(): the calendar date of the wall-clock reading, whatever its offset
DateOf(ts) == ts.wall \div SecondsPerDay

\* the UTC instant the driver stores for a datetime
Instant(ts) == ts.wall - ts.off

\* datetime.utcnow().replace(tzinfo=timezone.utc)
UtcNow(now) == [wall |-> now, off |-> 0]

utc_start_end_for_day(d) ==
  [start |-> d * SecondsPerDay, end |-> d * SecondsPerDay + SecondsPerDay]

\* the lookup without its room_id condition
FindMarkAnyRoom(att, sid, rid, start, end) ==
  LET hits == { i \in 1..Len(att) :
                  /\ att[i].student_id = sid
                  /\ att[i].timestamp >= start
                  /\ att[i].timestamp < end }
  IN IF hits = {} THEN <<>> ELSE <<att[SetMin(hits)]>>

\* db["attendance"].find_one({student_id, room_id, timestamp: {$gte, $lt}})
FindMark(att, sid, rid, start, end) ==
  LET hits == { i \in 1..Len(att) :
                  /\ att[i].student_id = sid
                  /\ att[i].room_id = rid
                  /\ att[i].timestamp >= start
                  /\ att[i].timestamp < end }
  IN IF hits = {} THEN <<>> ELSE <<att[SetMin(hits)]>>

\* the body of mark_attendance on a store att at wall-clock time now
mark_attendance(att, sid, rid, tsopt, src, now) ==
  LET ts == IF tsopt = <<>> THEN UtcNow(now) ELSE tsopt[1]
      day == utc_start_end_for_day(DateOf(ts))
      existing == FindMark(att, sid, rid, day.start, day.end)
      doc == [id |-> Len(att) + 1,
              student_id |-> sid,
              room_id |-> rid,
              timestamp |-> Instant(ts),
              source |-> IF src = "" THEN "agent" ELSE src]
  IN IF existing # <<>>
       THEN [att |-> att, resp |-> existing, branch |-> "existing"]
       ELSE [att |-> Append(att, doc), resp |-> <<doc>>, branch |-> "created"]

\* ------------------------------------------------- store, one request at a time
\* POST /attendance/mark
MarkRequest(sid, rid, tsopt, src) ==
  LET r == mark_attendance(attendance, sid, rid, tsopt, src, clock)
  IN /\ Len(r.att) <= MaxDocs
     /\ attendance' = r.att
     /\ resp' = r.resp
     /\ branch' = r.branch
     /\ UNCHANGED <<clock, unknown, th, agentVars>>

\* POST /attendance/manual
manual_override(sid, rid) ==
  LET r == mark_attendance(attendance, sid, rid, <<>>, "manual", clock)
  IN /\ Len(r.att) <= MaxDocs
     /\ attendance' = r.att
     /\ resp' = r.resp
     /\ branch' = r.branch
     /\ UNCHANGED <<clock, unknown, th, agentVars>>

\* the clock reaches the next UTC midnight, over the days of Timestamps
Midnight ==
  /\ \E t \in Timestamps : (clock \div SecondsPerDay + 1) * SecondsPerDay <= Instant(t)
  /\ clock' = (clock \div SecondsPerDay + 1) * SecondsPerDay
  /\ UNCHANGED <<attendance, unknown, resp, branch, th, agentVars>>

\* the empty store
EmptyStore ==
  /\ attendance = <<>>
  /\ unknown = <<>>
  /\ resp = <<>>
  /\ branch = "none"
  /\ th = [t \in Threads |-> <<>>]

\* no edge agent running
NoAgent ==
  /\ students = <<>>
  /\ pc = "off"
  /\ cam_ok = TRUE
  /\ args = [tolerance |-> 0, unknown |-> FALSE]
  /\ known = [encodings |-> <<>>, ids |-> <<>>, names |-> <<>>]
  /\ last_mark = <<>>
  /\ faces = 0
  /\ key = FALSE
  /\ out = <<>>

\* noon of day 0
InitStore ==
  /\ clock = 43200
  /\ EmptyStore
  /\ NoAgent

NextStore ==
  \/ \E k \in Keys, tsopt \in OptTimestamps, src \in Sources :
       MarkRequest(k[1], k[2], tsopt, src)
  \/ \E k \in Keys : manual_override(k[1], k[2])
  \/ Midnight

SpecStore == InitStore /\ [][NextStore]_vars

\* ------------------------------------- store, requests handled concurrently
\* mark_attendance up to its existence lookup: the request is answered with
\* the existing mark, or the thread goes on to insert
Lookup(t, sid, rid, tsopt, src) ==
  LET r == mark_attendance(attendance, sid, rid, tsopt, src, clock)
      pending == Cardinality({ u \in Threads : th[u] # <<>> })
  IN /\ th[t] = <<>>
     /\ IF r.branch = "existing"
          THEN /\ resp' = r.resp
               /\ branch' = "existing"
               /\ th' = th
          ELSE /\ Len(attendance) + pending < MaxDocs
               /\ th' = [th EXCEPT ![t] = r.resp]
               /\ UNCHANGED <<resp, branch>>
     /\ UNCHANGED <<clock, attendance, unknown, agentVars>>

\* mark_attendance from insert_one on: the document built before the lookup
\* is inserted and read back
Insert(t) ==
  /\ th[t] # <<>>
  /\ LET doc == [th[t][1] EXCEPT !.id = Len(attendance) + 1]
     IN /\ attendance' = Append(attendance, doc)
        /\ resp' = <<doc>>
  /\ branch' = "created"
  /\ th' = [th EXCEPT ![t] = <<>>]
  /\ UNCHANGED <<clock, unknown, agentVars>>

NextConc ==
  \/ \E t \in Threads, k \in Keys, tsopt \in UtcOptTimestamps, src \in Sources :
       Lookup(t, k[1], k[2], tsopt, src)
  \/ \E t \in Threads : Insert(t)
  \/ Midnight

SpecConc == InitStore /\ [][NextConc]_vars

\* ------------------------------------------------------- edge agent: data
\* a face encoding: its length and, standing for the vector, a point on a
\* line, so that the Euclidean distance of two encodings is |at - at|
Points == 0..MaxEnc
FaceEncodings == { [len |-> MinEncodingLen, at |-> p] : p \in Points }
\* --tolerance: exact matches only, or neighbours too
Tolerances == {0, 1}

StudentIds == <<"S1", "S2", "S3", "S4">>
StudentNames == <<"Ann", "Bob", "Cy", "Di">>

\* the student documents of the store: the first and every third one after it
\* has no usable encoding (one number short of MinEncodingLen, or none at all)
StudentDoc(i) ==
  [id |-> StudentIds[i],
   name |-> StudentNames[i],
   encoding |->
     IF i % 3 = 1
       THEN IF i % 2 = 1
              THEN <<[len |-> MinEncodingLen - 1, at |-> 0]>>
              ELSE <<>>
       ELSE <<[len |-> MinEncodingLen, at |-> (i + MaxEnc - 1) % (MaxEnc + 1)]>>]

StudentLists == { [i \in 1..n |-> StudentDoc(i)] : n \in 0..MaxStudents }

\* how many faces one frame can show.  What the detector returns for a face
\* is read by nothing before that face's turn in the for loop, so its
\* encoding is drawn when the loop reaches it.
FaceCounts == 0..MaxFaces

\* what requests.post can do: answer 2xx, answer 5xx, raise (no connection,
\* timeout)
Outcomes == {"ok", "error", "raised"}

\* the readings of time.time() that are followed: the first seconds from
\* Cooldown on, and the first seconds from a cooldown after those on
TimePoints ==
  (Cooldown .. Cooldown + MaxStep) \cup (2 * Cooldown + 1 .. 2 * Cooldown + 1 + MaxStep)

Abs(x) == IF x < 0 THEN -x ELSE x

\* ------------------------------------------------- edge agent: pure helpers
\* every student with an encoding, whatever its length
load_known_faces_any_length(studs) ==
  LET Keep(s) == s.encoding # <<>>
      kept == SelectSeq(studs, Keep)
  IN [encodings |-> [i \in 1..Len(kept) |-> kept[i].encoding[1]],
      ids |-> [i \in 1..Len(kept) |-> kept[i].id],
      names |-> [i \in 1..Len(kept) |-> kept[i].name]]

\* the students whose encoding is a list of at least MinEncodingLen numbers
load_known_faces(studs) ==
  LET Keep(s) == s.encoding # <<>> /\ s.encoding[1].len >= MinEncodingLen
      kept == SelectSeq(studs, Keep)
  IN [encodings |-> [i \in 1..Len(kept) |-> kept[i].encoding[1]],
      ids |-> [i \in 1..Len(kept) |-> kept[i].id],
      names |-> [i \in 1..Len(kept) |-> kept[i].name]]

\* face_recognition.face_distance
face_distance(encs, enc) == [i \in 1..Len(encs) |-> Abs(encs[i].at - enc.at)]

\* face_recognition.compare_faces
compare_faces(encs, enc, tol) ==
  [i \in 1..Len(encs) |-> Abs(encs[i].at - enc.at) <= tol]

\* np.argmin takes the last of the smallest
argmin_last(d) ==
  CHOOSE i \in 1..Len(d) :
    /\ \A j \in 1..Len(d) : d[i] <= d[j]
    /\ \A j \in 1..Len(d) : d[j] = d[i] => j <= i

\* np.argmin: the first index of the smallest element
argmin(d) ==
  CHOOSE i \in 1..Len(d) :
    /\ \A j \in 1..Len(d) : d[i] <= d[j]
    /\ \A j \in 1..Len(d) : d[j] = d[i] => i <= j

\* the comparison done whether or not the roster is empty
match_unguarded(encs, ids, enc, tol) ==
  LET matches == compare_faces(encs, enc, tol)
      face_distances == face_distance(encs, enc)
      best_match_index ==
        IF Len(face_distances) > 0 THEN <<argmin(face_distances)>> ELSE <<>>
  IN [compared |-> TRUE,
      student_id |-> IF best_match_index # <<>> /\ matches[best_match_index[1]]
                       THEN <<ids[best_match_index[1]]>>
                       ELSE <<>>]

\* lines 97-110: the student_id of the face, Optional; compared tells whether
\* compare_faces and face_distance were called
match(encs, ids, enc, tol) ==
  LET compared == Len(encs) > 0
      matches == IF compared THEN compare_faces(encs, enc, tol) ELSE <<>>
      face_distances == IF compared THEN face_distance(encs, enc) ELSE <<>>
      best_match_index ==
        IF compared /\ Len(face_distances) > 0 THEN <<argmin(face_distances)>> ELSE <<>>
  IN [compared |-> compared,
      student_id |-> IF best_match_index # <<>> /\ matches[best_match_index[1]]
                       THEN <<ids[best_match_index[1]]>>
                       ELSE <<>>]

\* last_mark.get(student_id, 0)
Get(d, k, default) == IF k \in DOMAIN d THEN d[k] ELSE default

\* an identity is due once in the life of the process
should_mark_once(lm, sid, now) == sid \notin DOMAIN lm

\* the comparison with >= for >
should_mark_ge(lm, sid, now) == now - Get(lm, sid, 0) >= Cooldown

\* now - last_mark.get(student_id, 0) > 10
should_mark(lm, sid, now) == now - Get(lm, sid, 0) > Cooldown

\* last_mark[student_id] = now
record_mark(lm, sid, now) ==
  [k \in DOMAIN lm \cup {sid} |-> IF k = sid THEN now ELSE lm[k]]

\* the time is recorded when the submission was answered 2xx
attempt_mark_on_success(lm, sid, now, outcome) ==
  IF outcome = "ok" THEN record_mark(lm, sid, now) ELSE lm

\* lines 115-116: mark_present(...), which returns nothing and raises
\* nothing, and then last_mark[student_id] = now whatever the outcome was
attempt_mark(lm, sid, now, outcome) == record_mark(lm, sid, now)

\* the else branch reports whatever args.unknown says
should_report_always(student_id, a) == student_id = <<>>

\* unknown faces kept to one report per cooldown, under the key None
should_report_cooldown(student_id, a) ==
  student_id = <<>> /\ a.unknown /\ clock - Get(last_mark, "None", 0) > Cooldown

\* lines 117-118: an unmatched face is reported when --unknown was given
should_report(student_id, a) == student_id = <<>> /\ a.unknown

\* requests.post outside any try: an exception leaves the function
post_unguarded(outcome) == [tries |-> 1, propagates |-> outcome = "raised"]

\* mark_present and log_unknown: one requests.post inside try/except
\* Exception: pass; the response is not looked at
post_swallowed(outcome) == [tries |-> 1, propagates |-> FALSE]

\* ------------------------------------------------------ edge agent: steps
Running == pc \in {"read", "faces", "show"}

\* lines 74-76: cap = cv2.VideoCapture(cam_source), and SystemExit when
\* cap.isOpened() is false
VideoCapture(isOpened) ==
  /\ pc = "start"
  /\ pc' = IF isOpened THEN "load" ELSE "exit"
  /\ UNCHANGED <<clock, storeVars, students, cam_ok, args, known, last_mark, faces, key, out>>

\* the camera opens or it does not
OpenCamera == \E isOpened \in BOOLEAN : VideoCapture(isOpened)

\* the GET /students that failed is taken for an empty answer
LoadRoster_unchecked(reachable) ==
  /\ pc = "load"
  /\ known' = load_known_faces(IF reachable THEN students ELSE <<>>)
  /\ pc' = "read"
  /\ UNCHANGED <<clock, storeVars, students, cam_ok, args, last_mark, faces, key, out>>

\* line 78, load_known_faces(backend): requests.get and raise_for_status are
\* outside any try, so an unreachable store or an error status ends main()
LoadRoster(reachable) ==
  /\ pc = "load"
  /\ IF reachable
       THEN /\ known' = load_known_faces(students)
            /\ pc' = "read"
       ELSE /\ pc' = "exit"
            /\ known' = known
  /\ UNCHANGED <<clock, storeVars, students, cam_ok, args, last_mark, faces, key, out>>

\* the store answers GET /students or it does not
LoadKnownFaces == \E reachable \in BOOLEAN : LoadRoster(reachable)

\* a failed read breaks the loop
ReadFrame_fatal ==
  /\ pc = "read"
  /\ IF cam_ok
       THEN \E n \in FaceCounts :
              /\ faces' = n
              /\ pc' = IF n = 0 THEN "show" ELSE "faces"
       ELSE /\ pc' = "done"
            /\ faces' = faces
  /\ UNCHANGED <<clock, storeVars, students, cam_ok, args, known, last_mark, key, out>>

\* cap.read(), and on a frame the resize and the face detection; on a failed
\* read time.sleep(0.1) and continue, back to cap.read()
ReadFrame ==
  /\ pc = "read"
  /\ IF cam_ok
       THEN \E n \in FaceCounts :
              /\ faces' = n
              /\ pc' = IF n = 0 THEN "show" ELSE "faces"
       ELSE UNCHANGED <<faces, pc>>
  /\ UNCHANGED <<clock, storeVars, students, cam_ok, args, known, last_mark, key, out>>

\* the body of the for loop for the next face, whose encoding is enc; outcome
\* is what requests.post does if this face leads to a submission.  An
\* exception that left the body would end main() without the release.
LoopBody(enc, outcome) ==
  /\ pc = "faces"
  /\ faces > 0
  /\ LET m == match(known.encodings, known.ids, enc, args.tolerance)
         now == clock
         due == m.student_id # <<>> /\ should_mark(last_mark, m.student_id[1], now)
         report == should_report(m.student_id, args)
         post == IF due \/ report THEN post_swallowed(outcome)
                                  ELSE [tries |-> 0, propagates |-> FALSE]
     IN /\ out' = <<[student_id |-> m.student_id,
                     compared |-> m.compared,
                     prior |-> IF m.student_id # <<>> /\ m.student_id[1] \in DOMAIN last_mark
                                 THEN <<last_mark[m.student_id[1]]>> ELSE <<>>,
                     sent |-> IF due THEN "mark" ELSE IF report THEN "unknown" ELSE "none",
                     outcome |-> IF due \/ report THEN outcome ELSE "none",
                     tries |-> post.tries]>>
        /\ IF post.propagates
             THEN /\ pc' = "crashed"
                  /\ UNCHANGED <<last_mark, faces>>
             ELSE /\ last_mark' = IF due THEN attempt_mark(last_mark, m.student_id[1], now, outcome)
                                         ELSE last_mark
                  /\ faces' = faces - 1
                  /\ pc' = IF faces = 1 THEN "show" ELSE "faces"
  /\ UNCHANGED <<clock, students, cam_ok, args, known, key>>

\* the loop body seen from the agent alone: what the store does with a
\* submission is not followed
ProcessFace(enc, outcome) ==
  /\ LoopBody(enc, outcome)
  /\ UNCHANGED storeVars

\* cv2.imshow and cv2.waitKey(1): q breaks the loop, and the camera is released
Show ==
  /\ pc = "show"
  /\ pc' = IF key THEN "done" ELSE "read"
  /\ key' = FALSE
  /\ out' = <<>>
  /\ UNCHANGED <<clock, storeVars, students, cam_ok, args, known, last_mark, faces>>

\* ------------------------------------------------ edge agent: environment
\* the operator presses q
KeyPress ==
  /\ Running
  /\ ~key
  /\ key' = TRUE
  /\ UNCHANGED <<clock, storeVars, students, pc, cam_ok, args, known, last_mark, faces, out>>

\* the camera stops or resumes delivering frames
CameraToggle ==
  /\ pc = "read"
  /\ cam_ok' = ~cam_ok
  /\ UNCHANGED <<clock, storeVars, students, pc, args, known, last_mark, faces, key, out>>

\* time passes, up to the next of the clock readings followed
Tick ==
  /\ Running
  /\ \E t \in TimePoints :
       /\ t > clock
       /\ \A u \in TimePoints : u > clock => t <= u
       /\ clock' = t
  /\ UNCHANGED <<storeVars, agentVars>>

\* the process is started with the clock at Cooldown seconds past the epoch,
\* the last reading at which an identity never marked is taken for marked
\* within the cooldown, and with any command line and store content
InitAgent ==
  /\ clock = Cooldown
  /\ EmptyStore
  /\ students \in StudentLists
  /\ pc = "start"
  /\ cam_ok = TRUE
  /\ args \in [tolerance : Tolerances, unknown : BOOLEAN]
  /\ known = [encodings |-> <<>>, ids |-> <<>>, names |-> <<>>]
  /\ last_mark = <<>>
  /\ faces = 0
  /\ key = FALSE
  /\ out = <<>>

NextAgent ==
  \/ OpenCamera
  \/ LoadKnownFaces
  \/ ReadFrame
  \/ \E enc \in FaceEncodings, outcome \in Outcomes : ProcessFace(enc, outcome)
  \/ Show
  \/ KeyPress
  \/ CameraToggle
  \/ Tick

SpecAgent == InitAgent /\ [][NextAgent]_vars

\* the loop keeps running: each of its steps is taken when it stays possible,
\* and a camera that delivers frames again and again has one read in the end;
\* nothing obliges the camera, the store or the operator
SpecAgentFair ==
  /\ SpecAgent
  /\ WF_vars(OpenCamera)
  /\ WF_vars(LoadKnownFaces)
  /\ SF_vars(ReadFrame)
  /\ WF_vars(\E enc \in FaceEncodings, outcome \in Outcomes : ProcessFace(enc, outcome))
  /\ WF_vars(Show)

\* ---------------------------------------------- the Match Engine on its own
\* every roster of up to MaxRoster entries that a load can produce
Rosters ==
  { [encodings |-> e,
     ids |-> [i \in 1..Len(e) |-> StudentIds[i]],
     names |-> [i \in 1..Len(e) |-> StudentNames[i]]] :
    e \in UNION { [1..n -> FaceEncodings] : n \in 0..MaxRoster } }

\* the loop past its start, with any roster and tolerance, the clock past the
\* first cooldown
InitMatch ==
  /\ clock = Cooldown + 1
  /\ EmptyStore
  /\ students = <<>>
  /\ pc = "read"
  /\ cam_ok = TRUE
  /\ args \in [tolerance : Tolerances, unknown : {FALSE}]
  /\ known \in Rosters
  /\ last_mark = <<>>
  /\ faces = 0
  /\ key = FALSE
  /\ out = <<>>

NextMatch ==
  \/ ReadFrame
  \/ \E enc \in FaceEncodings, outcome \in Outcomes : ProcessFace(enc, outcome)
  \/ Show

SpecMatch == InitMatch /\ [][NextMatch]_vars

\* ------------------------------------------- the geometry of one detection
\* --scale as the fraction num / den in lowest terms, within (0, 1]
Scales ==
  { s \in [num : 1..MaxDen, den : 1..MaxDen] :
      /\ s.num <= s.den
      /\ \A g \in 2..MaxDen : ~(s.num % g = 0 /\ s.den % g = 0) }

\* pixel rows and columns of the original frame
Pixels == 0..MaxPixel

\* (top, right, bottom, left) of a region that is not empty
Boxes ==
  { b \in [top : Pixels, right : Pixels, bottom : Pixels, left : Pixels] :
      b.top < b.bottom /\ b.left < b.right }

\* the detector finds an edge that lies at o in the original frame, and so at
\* o * s in the downsampled frame, at a whole pixel d next to o * s
Near(d, o, s) == Abs(d * s.den - o * s.num) < s.den

\* the coordinate multiplied by the scale
int_div_times(c, s) == (c * s.num) \div s.den

\* int(c / args.scale), c >= 0
int_div(c, s) == (c * s.den) \div s.num

\* lines 120 and 127: t, r, b, l = int(top/args.scale), ...
rescale(box, s) ==
  [top |-> int_div(box.top, s), right |-> int_div(box.right, s),
   bottom |-> int_div(box.bottom, s), left |-> int_div(box.left, s)]

\* lines 90-94: the frame resized by args.scale in both directions and one
\* face located in it, small being where the detector puts the face that
\* fills orig in the frame
DetectBox(orig, small) ==
  /\ pc = "read"
  /\ cam_ok
  /\ Near(small.top, orig.top, args.scale)
  /\ Near(small.right, orig.right, args.scale)
  /\ Near(small.bottom, orig.bottom, args.scale)
  /\ Near(small.left, orig.left, args.scale)
  /\ out' = <<[orig |-> orig, small |-> small, crop |-> <<>>, overlay |-> <<>>]>>
  /\ faces' = 1
  /\ pc' = "faces"
  /\ UNCHANGED <<clock, storeVars, students, cam_ok, args, known, last_mark, key>>

\* lines 118-128 for a face that matched nobody: the box of the crop sent
\* with the report when --unknown was given, and the box drawn on the frame
RescaleBox ==
  /\ pc = "faces"
  /\ faces = 1
  /\ out' = <<[out[1] EXCEPT
                 !.crop = IF args.unknown THEN <<rescale(out[1].small, args.scale)>>
                                          ELSE <<>>,
                 !.overlay = <<rescale(out[1].small, args.scale)>>]>>
  /\ faces' = 0
  /\ pc' = "show"
  /\ UNCHANGED <<clock, storeVars, students, cam_ok, args, known, last_mark, key>>

\* the loop past its start with an empty roster, any scale
InitScale ==
  /\ clock = Cooldown
  /\ EmptyStore
  /\ students = <<>>
  /\ pc = "read"
  /\ cam_ok = TRUE
  /\ args \in [tolerance : {1}, unknown : BOOLEAN, scale : Scales]
  /\ known = [encodings |-> <<>>, ids |-> <<>>, names |-> <<>>]
  /\ last_mark = <<>>
  /\ faces = 0
  /\ key = FALSE
  /\ out = <<>>

\* where the detector can put a face that fills orig
Detections(orig, s) ==
  LET Edge(o) == { d \in Pixels : Near(d, o, s) }
  IN { b \in [top : Edge(orig.top), right : Edge(orig.right),
               bottom : Edge(orig.bottom), left : Edge(orig.left)] :
         b.top < b.bottom /\ b.left < b.right }

\* a frame with one face in it, anywhere
Detect ==
  /\ pc = "read"
  /\ \E orig \in Boxes : \E small \in Detections(orig, args.scale) :
       DetectBox(orig, small)

NextScale ==
  \/ Detect
  \/ RescaleBox
  \/ Show

SpecScale == InitScale /\ [][NextScale]_vars

\* ------------------------------------------- the roster and a changing store
\* main.py, POST /students: a student is added to the store, after those
\* already there
create_student ==
  /\ Len(students) < MaxStudents
  /\ students' = Append(students, StudentDoc(Len(students) + 1))
  /\ UNCHANGED <<clock, storeVars, pc, cam_ok, args, known, last_mark, faces, key, out>>

\* the process is started one second past the first cooldown, reporting of
\* unknown faces off, with any students in the store
InitRoster ==
  /\ clock = Cooldown + 1
  /\ EmptyStore
  /\ students \in StudentLists
  /\ pc = "start"
  /\ cam_ok = TRUE
  /\ args \in [tolerance : Tolerances, unknown : {FALSE}]
  /\ known = [encodings |-> <<>>, ids |-> <<>>, names |-> <<>>]
  /\ last_mark = <<>>
  /\ faces = 0
  /\ key = FALSE
  /\ out = <<>>

NextRoster ==
  \/ OpenCamera
  \/ LoadKnownFaces
  \/ ReadFrame
  \/ \E enc \in FaceEncodings, outcome \in Outcomes : ProcessFace(enc, outcome)
  \/ Show
  \/ create_student

SpecRoster == InitRoster /\ [][NextRoster]_vars

\* --------------------------------------------------- the unknown-face log
\* snapshot_b64 of a report: none, or the one picture followed
Snapshots == {<<>>, <<"img">>}

\* an identical report already stored is returned instead of a new record
log_unknown_dedup(rid, tsopt, snap) ==
  LET ts == IF tsopt = <<>> THEN UtcNow(clock) ELSE tsopt[1]
      same == { i \in 1..Len(unknown) :
                  /\ unknown[i].room_id = rid
                  /\ unknown[i].timestamp = Instant(ts)
                  /\ unknown[i].snapshot_b64 = snap }
      doc == [id |-> Len(unknown) + 1, room_id |-> rid, timestamp |-> Instant(ts),
              snapshot_b64 |-> snap, note |-> <<>>]
  IN /\ Len(unknown) < MaxUnknown
     /\ IF same = {}
          THEN /\ unknown' = Append(unknown, doc)
               /\ resp' = <<doc>>
          ELSE /\ unknown' = unknown
               /\ resp' = <<unknown[SetMin(same)]>>
     /\ UNCHANGED <<clock, attendance, branch, th, agentVars>>

\* POST /unknown: the report is inserted with the payload's timestamp, or
\* the time of the request, and read back
log_unknown(rid, tsopt, snap) ==
  LET ts == IF tsopt = <<>> THEN UtcNow(clock) ELSE tsopt[1]
      doc == [id |-> Len(unknown) + 1, room_id |-> rid, timestamp |-> Instant(ts),
              snapshot_b64 |-> snap, note |-> <<>>]
  IN /\ Len(unknown) < MaxUnknown
     /\ unknown' = Append(unknown, doc)
     /\ resp' = <<doc>>
     /\ UNCHANGED <<clock, attendance, branch, th, agentVars>>

\* reports of one room, with the time of the request or a time of their own,
\* among mark requests of one student of that room and the passing of days
NextUnknown ==
  \/ \E tsopt \in UtcOptTimestamps, snap \in Snapshots : log_unknown("R1", tsopt, snap)
  \/ MarkRequest("S1", "R1", <<>>, "agent")
  \/ Midnight

SpecUnknown == InitStore /\ [][NextUnknown]_vars

\* ------------------------------------------ the agent together with the store
\* --room-id
RoomId == "R1"

\* the last reading of the first seconds followed
OutageEnd == Cooldown + MaxStep

\* an outage of the store lasts at most the first seconds followed: from
\* then on every request is answered 2xx
OutcomesAt(now) == IF now <= OutageEnd THEN Outcomes ELSE {"ok"}

\* whether the request reached mark_attendance: it did when it was answered
\* 2xx, it did not when the store answered with an error, and a request that
\* raised (no connection, or no answer within the timeout) may have
Deliveries(outcome) ==
  IF outcome = "ok" THEN {TRUE} ELSE IF outcome = "error" THEN {FALSE} ELSE BOOLEAN

\* the loop body, and mark_attendance for the PresenceMark that mark_present
\* sends: student_id, --room-id, utcnow() and source "agent"
ProcessFaceStore(enc, outcome, delivered) ==
  /\ LoopBody(enc, outcome)
  /\ IF out'[1].sent = "mark" /\ delivered
       THEN LET r == mark_attendance(attendance, out'[1].student_id[1], RoomId,
                                     <<UtcNow(clock)>>, "agent", clock)
            IN /\ attendance' = r.att
               /\ resp' = r.resp
               /\ branch' = r.branch
       ELSE UNCHANGED <<attendance, resp, branch>>
  /\ UNCHANGED <<unknown, th>>

\* one face of one frame after the other
ProcessFaces ==
  \E enc \in FaceEncodings, outcome \in OutcomesAt(clock) :
    \E delivered \in Deliveries(outcome) : ProcessFaceStore(enc, outcome, delivered)

\* the loop past its start, the roster loaded from a store with MaxStudents
\* students, neighbours matched too, unknown-face reporting off
InitLive ==
  /\ clock = Cooldown
  /\ EmptyStore
  /\ students = [i \in 1..MaxStudents |-> StudentDoc(i)]
  /\ pc = "read"
  /\ cam_ok = TRUE
  /\ args \in [tolerance : {1}, unknown : {FALSE}]
  /\ known = load_known_faces(students)
  /\ last_mark = <<>>
  /\ faces = 0
  /\ key = FALSE
  /\ out = <<>>

NextLive ==
  \/ ReadFrame
  \/ ProcessFaces
  \/ Show
  \/ Tick

SpecLive == InitLive /\ [][NextLive]_vars

\* the loop keeps running, one step of it being possible at any time, and
\* time passes; which faces the camera shows and what the store answers
\* during the outage is left open
SpecLiveFair ==
  /\ SpecLive
  /\ WF_vars(ReadFrame \/ ProcessFaces \/ Show)
  /\ WF_vars(Tick)

\* ------------------------------------------------------------ properties
UtcDay(t) == t \div SecondsPerDay

SameKey(a, b) ==
  /\ a.student_id = b.student_id
  /\ a.room_id = b.room_id
  /\ UtcDay(a.timestamp) = UtcDay(b.timestamp)

\* C1: after any sequence of mark and manual requests handled one at a time,
\* with any timestamps, the attendance collection holds at most one mark for
\* every (student_id, room_id, UTC calendar day).
DailyUniqueness ==
  \A i, j \in 1..Len(attendance) :
    SameKey(attendance[i], attendance[j]) => i = j

\* C2: when mark requests for the same (student_id, room_id, day) are handled
\* concurrently, no reachable state has more than one stored mark for that
\* (student_id, room_id, day).
SerializedDailyUniqueness ==
  \A i \in 1..Len(attendance) : \A j \in 1..Len(attendance) :
    (i < j /\ attendance[i].student_id = attendance[j].student_id
           /\ attendance[i].room_id = attendance[j].room_id)
      => UtcDay(attendance[i].timestamp) # UtcDay(attendance[j].timestamp)

\* the first stored mark of a request's (student_id, room_id, UTC day), if any
FirstOfKey(att, sid, rid, t) ==
  LET hits == { i \in 1..Len(att) :
                  /\ att[i].student_id = sid
                  /\ att[i].room_id = rid
                  /\ UtcDay(att[i].timestamp) = UtcDay(t) }
  IN IF hits = {} THEN <<>> ELSE <<att[SetMin(hits)]>>

\* what a mark request with a UTC timestamp must do: answer with the mark
\* first stored for its key and leave the store alone, or, when the key has
\* no mark, store one new mark carrying the request's fields and answer with it
IdempotentStep(sid, rid, t, src) ==
  LET first == FirstOfKey(attendance, sid, rid, t)
  IN IF first # <<>>
       THEN /\ resp' = first
            /\ attendance' = attendance
       ELSE /\ Len(attendance') = Len(attendance) + 1
            /\ SubSeq(attendance', 1, Len(attendance)) = attendance
            /\ resp' = <<attendance'[Len(attendance')]>>
            /\ resp'[1].student_id = sid
            /\ resp'[1].room_id = rid
            /\ resp'[1].timestamp = t
            /\ resp'[1].source = src

\* C3: a mark submitted by the agent or by manual override for a
\* (student_id, room_id) that already has a mark on that UTC day returns that
\* same document (id, timestamp and source as first stored) and changes
\* nothing in the store; the first submission of the day returns the document
\* it stored.
IdempotentResponse ==
  [][ /\ \A k \in Keys, tsopt \in UtcOptTimestamps, src \in Sources :
           MarkRequest(k[1], k[2], tsopt, src) =>
             IdempotentStep(k[1], k[2],
                            IF tsopt = <<>> THEN clock ELSE tsopt[1].wall,
                            IF src = "" THEN "agent" ELSE src)
      /\ \A k \in Keys :
           manual_override(k[1], k[2]) => IdempotentStep(k[1], k[2], clock, "manual")
    ]_vars

\* a request was answered with the mark an agent request had stored first,
\* with a second mark in the store untouched
IdempotentResponseWitness ==
  /\ branch = "existing"
  /\ Len(attendance) = 2
  /\ resp = <<attendance[1]>>
  /\ resp[1].source = "agent"
  /\ resp[1].timestamp = 43205
  /\ clock = 43200

\* C4: in one Capture Loop, a matched detection of an identity whose last
\* mark was attempted and recorded at t0 submits a mark iff now > t0 +
\* Cooldown; a submission records now, anything else leaves CooldownState
\* alone, so two consecutive submissions for one identity are more than
\* Cooldown apart.
DebounceWindow ==
  [][ (pc = "faces" /\ faces' = faces - 1 /\ out'[1].student_id # <<>>) =>
        LET sid == out'[1].student_id[1]
        IN /\ sid \in DOMAIN last_mark =>
                (out'[1].sent = "mark" <=> clock > last_mark[sid] + Cooldown)
           /\ out'[1].sent = "mark" =>
                last_mark' = [k \in DOMAIN last_mark \cup {sid} |->
                                IF k = sid THEN clock ELSE last_mark[k]]
           /\ out'[1].sent # "mark" => last_mark' = last_mark
    ]_vars

\* an identity marked at Cooldown + 1 was marked again at 2 * Cooldown + 2
DebounceWindowWitness ==
  /\ out # <<>>
  /\ out[1].sent = "mark"
  /\ out[1].prior = <<Cooldown + 1>>
  /\ last_mark[out[1].student_id[1]] = 2 * Cooldown + 2

\* C5: for an identity with no entry in CooldownState the debouncer answers
\* true for every value of now, so its first matched detection always submits
\* a PresenceMark.
FirstSightingDue ==
  (out # <<>> /\ out[1].student_id # <<>> /\ out[1].prior = <<>>)
    => out[1].sent = "mark"

\* the distance of roster entry i from the face
Distance(i, enc) == Abs(known.encodings[i].at - enc.at)

\* the first roster entry among those nearest to the face
Nearest(enc) ==
  LET least == SetMin({ Distance(i, enc) : i \in 1..Len(known.encodings) })
  IN SetMin({ i \in 1..Len(known.encodings) : Distance(i, enc) = least })

\* C6: for every non-empty roster, encoding and tolerance the face is
\* Matched{id} iff the minimum distance over the roster is <= tolerance, id
\* being the identity of the minimum-distance entry, the first in roster
\* order on ties; otherwise it is Unknown.
MatchEngineResult ==
  [][ \A enc \in FaceEncodings, outcome \in Outcomes :
        (ProcessFace(enc, outcome) /\ Len(known.encodings) > 0) =>
          out'[1].student_id =
            IF Distance(Nearest(enc), enc) <= args.tolerance
              THEN <<known.ids[Nearest(enc)]>>
              ELSE <<>>
    ]_vars

\* two roster entries with the same encoding are equidistant from any face:
\* the face was matched to the first
MatchEngineResultWitness ==
  /\ Len(known.ids) = 2
  /\ known.encodings[1] = known.encodings[2]
  /\ out # <<>>
  /\ out[1].student_id = <<known.ids[1]>>

\* C7: with an empty roster every detected face is Unknown for any tolerance,
\* no distance comparison is performed and the loop never submits a
\* PresenceMark.
EmptyRosterUnknown ==
  Len(known.encodings) = 0 =>
    /\ last_mark = <<>>
    /\ out # <<>> =>
         /\ out[1].student_id = <<>>
         /\ ~out[1].compared
         /\ out[1].sent # "mark"

\* a face was processed by a loop whose store had students but none with a
\* usable encoding
EmptyRosterUnknownWitness ==
  /\ pc \in {"faces", "show"}
  /\ students # <<>>
  /\ Len(known.encodings) = 0
  /\ args.tolerance = 1
  /\ out # <<>>
  /\ out[1].sent = "none"

\* C8: with unknown-face reporting disabled no UnknownFaceReport is
\* submitted, whatever faces are detected and however they are classified.
NoReportWhenDisabled ==
  ~args.unknown => (out # <<>> => out[1].sent # "unknown")

\* a face that matched nobody in a non-empty roster, reporting disabled
NoReportWhenDisabledWitness ==
  /\ ~args.unknown
  /\ Len(known.ids) > 0
  /\ out # <<>>
  /\ out[1].student_id = <<>>
  /\ out[1].sent = "none"

\* C9: whenever a mark or unknown-report submission fails (exception or
\* store-side error) the submission was tried once, the loop does not end
\* because of it and goes on to the next face or, after the last face, to
\* rendering and the next frame.
FailuresSwallowed ==
  [][ ( /\ pc = "faces"
        /\ <<pc, faces, out>>' # <<pc, faces, out>>
        /\ out' # <<>>
        /\ out'[1].outcome \in {"error", "raised"} ) =>
        /\ out'[1].tries = 1
        /\ faces' = faces - 1
        /\ pc' = IF faces = 1 THEN "show" ELSE "faces"
        /\ key' = key
    ]_vars

\* a mark submission raised, and the loop stands before the next face
FailuresSwallowedWitness ==
  /\ pc = "faces"
  /\ faces = 1
  /\ out # <<>>
  /\ out[1].sent = "mark"
  /\ out[1].outcome = "raised"

\* C10: once the operator has given the stop signal the Capture Loop
\* eventually reaches its terminal state, whatever the outcomes of frame
\* reads and of reporting are.
StopLeadsToRelease == key ~> (pc = "done")

\* C11: a camera that does not open, or a GET /students that fails, ends the
\* process there: the step leads to the exit, the exit is only ever entered
\* from the start-up, before any frame was read, with no face processed and
\* an empty CooldownState, and nothing happens after it.
FatalStartup ==
  [][ /\ (VideoCapture(FALSE) \/ LoadRoster(FALSE)) => pc' = "exit"
      /\ pc' \in {"start", "load", "exit"} => pc \in {"start", "load"}
      /\ pc' = "exit" => (faces' = 0 /\ out' = <<>> /\ last_mark' = <<>>)
      /\ pc # "exit"
    ]_vars

\* the process has exited at start-up, with students in the store and
\* unknown-face reporting asked for
FatalStartupWitness ==
  /\ pc = "exit"
  /\ Len(students) > 0
  /\ args.unknown
  /\ known.ids = <<>>

\* C12: a mark submission that is due records the time of the attempt for the
\* identity whatever the outcome, after one try; the next detection of an
\* identity whose submission has just failed at t submits again iff now > t +
\* Cooldown, and otherwise nothing is sent for it: the lost mark is not
\* retried.
OptimisticDebounce ==
  [][ (pc = "faces" /\ faces' = faces - 1) =>
        /\ out'[1].sent = "mark" =>
             /\ out'[1].tries = 1
             /\ out'[1].student_id[1] \in DOMAIN last_mark'
             /\ last_mark'[out'[1].student_id[1]] = clock
        /\ ( /\ out # <<>>
             /\ out[1].sent = "mark"
             /\ out[1].outcome \in {"error", "raised"}
             /\ out'[1].student_id = out[1].student_id ) =>
             /\ out[1].student_id[1] \in DOMAIN last_mark
             /\ out'[1].sent = "mark" <=>
                  clock > last_mark[out[1].student_id[1]] + Cooldown
             /\ out'[1].sent # "mark" =>
                  (out'[1].sent = "none" /\ out'[1].tries = 0 /\ last_mark' = last_mark)
    ]_vars

\* a submission for an identity attempted before at Cooldown + 1 was due
\* again, raised, and its time is recorded all the same
OptimisticDebounceWitness ==
  /\ out # <<>>
  /\ out[1].sent = "mark"
  /\ out[1].outcome = "raised"
  /\ out[1].prior = <<Cooldown + 1>>
  /\ last_mark[out[1].student_id[1]] = clock

\* C13: while frame reads fail the loop stays at the read, and nothing is
\* detected or submitted and CooldownState and the roster stay as they are,
\* however long the failures go on.
ReadFailureTransient ==
  [][ (pc = "read" /\ ~cam_ok) =>
        /\ pc' = "read"
        /\ UNCHANGED <<known, last_mark, faces, out, attendance, unknown>>
    ]_vars

\* reads fail in a loop that has marked an identity and whose operator has
\* pressed q
ReadFailureTransientWitness ==
  /\ pc = "read"
  /\ ~cam_ok
  /\ last_mark # <<>>
  /\ key

\* the edges of box a are each within n / d pixels of box b's, or less than
\* that far when strict
EdgesWithin(a, b, n, d, strict) ==
  \A e \in {"top", "right", "bottom", "left"} :
    IF strict THEN Abs(a[e] - b[e]) * d < n ELSE Abs(a[e] - b[e]) * d <= n

\* C14: for every scale in (0, 1] and every box of the original frame, the
\* box found in the downsampled frame and rescaled by int(coordinate / scale)
\* is within one pixel of the original box on every edge, for the crop and
\* for the overlay.
RoundTripWithinOnePixel ==
  (out # <<>> /\ out[1].overlay # <<>>) =>
    /\ EdgesWithin(out[1].overlay[1], out[1].orig, 1, 1, FALSE)
    /\ out[1].crop # <<>> => out[1].crop = out[1].overlay

\* C14 as amended: the rescaled box is within one pixel of the downsampled
\* frame, less than 1 / scale + 1 pixels of the original frame, of the
\* original box on every edge; crop and overlay are the same box, each
\* coordinate the detector's divided by args.scale and truncated.
RoundTripWithinScale ==
  (out # <<>> /\ out[1].overlay # <<>>) =>
    /\ EdgesWithin(out[1].overlay[1], out[1].orig,
                   args.scale.den + args.scale.num, args.scale.num, TRUE)
    /\ out[1].crop # <<>> => out[1].crop = out[1].overlay
    /\ \A e \in {"top", "right", "bottom", "left"} :
         LET r == out[1].overlay[1][e]
             d == out[1].small[e]
         IN /\ r * args.scale.num <= d * args.scale.den
            /\ d * args.scale.den < (r + 1) * args.scale.num

\* at scale 1/4 an edge at row 3 was found at row 0 of the downsampled frame
\* and came back as row 0, three pixels off
RoundTripWithinScaleWitness ==
  /\ out # <<>>
  /\ args.scale = [num |-> 1, den |-> 4]
  /\ out[1].orig.top = 3
  /\ out[1].crop # <<>>
  /\ out[1].crop[1].top = 0
  /\ out[1].crop[1].bottom = 4

\* the places in the store's answer of the students with a usable encoding
Usable(studs) ==
  { i \in 1..Len(studs) :
      studs[i].encoding # <<>> /\ studs[i].encoding[1].len >= MinEncodingLen }

\* the k-th smallest element of a set of numbers
NthOf(S, k) == CHOOSE i \in S : Cardinality({ j \in S : j < i }) = k - 1

\* kn holds exactly the usable students of studs, in their order, the three
\* lists aligned
IsRosterOf(kn, studs) ==
  LET n == Cardinality(Usable(studs))
  IN /\ Len(kn.ids) = n
     /\ Len(kn.names) = n
     /\ Len(kn.encodings) = n
     /\ \A k \in 1..n :
          LET st == studs[NthOf(Usable(studs), k)]
          IN /\ kn.ids[k] = st.id
             /\ kn.names[k] = st.name
             /\ kn.encodings[k] = st.encoding[1]

\* C15: the load makes the roster exactly the store's students whose encoding
\* is present and at least MinEncodingLen long, in store order with id, name
\* and encoding at one index; no other step changes the roster, whatever is
\* added to the store meanwhile, and a face is only ever matched to an
\* identity of the roster.
RosterLoadedOnce ==
  [][ /\ LoadRoster(TRUE) => IsRosterOf(known', students)
      /\ pc # "load" => known' = known
      /\ (pc = "faces" /\ faces' = faces - 1 /\ out'[1].student_id # <<>>) =>
           \E k \in 1..Len(known.ids) : known.ids[k] = out'[1].student_id[1]
    ]_vars

\* a student with a usable encoding was added after the load: the roster is
\* not the store's any more, and a face with that student's encoding was
\* processed without matching
RosterLoadedOnceWitness ==
  /\ pc \in {"faces", "show"}
  /\ Len(known.ids) = 1
  /\ Len(students) = 3
  /\ ~IsRosterOf(known, students)
  /\ args.tolerance = 0
  /\ out # <<>>
  /\ out[1].student_id = <<>>

\* C16: every POST /unknown adds exactly one record, the report as sent, at
\* the end of the unknown-face log, also when the same report is in the log
\* already, and is answered with it; no step changes or removes a record of
\* the log, and a POST /unknown leaves the attendance marks alone.
UnknownAppendOnly ==
  [][ /\ \A tsopt \in UtcOptTimestamps, snap \in Snapshots :
           log_unknown("R1", tsopt, snap) =>
             /\ Len(unknown') = Len(unknown) + 1
             /\ unknown'[Len(unknown')].room_id = "R1"
             /\ unknown'[Len(unknown')].snapshot_b64 = snap
             /\ unknown'[Len(unknown')].timestamp =
                  IF tsopt = <<>> THEN clock ELSE tsopt[1].wall
             /\ \A i \in 1..Len(unknown) : unknown'[Len(unknown')].id # unknown[i].id
             /\ resp' = <<unknown'[Len(unknown')]>>
             /\ attendance' = attendance
      /\ Len(unknown') >= Len(unknown)
      /\ SubSeq(unknown', 1, Len(unknown)) = unknown
    ]_vars

\* the same report is in the log twice, next to an attendance mark
UnknownAppendOnlyWitness ==
  /\ Len(unknown) >= 2
  /\ unknown[1].room_id = unknown[2].room_id
  /\ unknown[1].timestamp = unknown[2].timestamp
  /\ unknown[1].snapshot_b64 = unknown[2].snapshot_b64
  /\ unknown[1].id # unknown[2].id
  /\ attendance # <<>>

\* C17: a mark request whose (student_id, room_id, UTC day of the timestamp)
\* has no stored mark stores a new one, whatever marks the store holds for
\* other rooms, other UTC days or other students.
ExactKeySuppression ==
  [][ \A k \in Keys, tsopt \in OptTimestamps, src \in Sources :
        ( /\ MarkRequest(k[1], k[2], tsopt, src)
          /\ FirstOfKey(attendance, k[1], k[2],
                        IF tsopt = <<>> THEN clock ELSE Instant(tsopt[1])) = <<>> ) =>
          /\ branch' = "created"
          /\ Len(attendance') = Len(attendance) + 1
    ]_vars

\* C18: processing a face classified Unknown leaves CooldownState as it is,
\* and with unknown reporting enabled it makes exactly one report attempt,
\* whatever CooldownState holds and whatever was reported before.
UnknownNotDebounced ==
  [][ (pc = "faces" /\ faces' = faces - 1 /\ out'[1].student_id = <<>>) =>
        /\ last_mark' = last_mark
        /\ args.unknown => (out'[1].sent = "unknown" /\ out'[1].tries = 1)
        /\ (out # <<>> /\ out[1].sent = "unknown") => out'[1].sent = "unknown"
    ]_vars

\* the last face of a frame was reported as unknown, by a loop that has
\* marked an identity and has not let a cooldown pass since
UnknownNotDebouncedWitness ==
  /\ pc = "show"
  /\ args.unknown
  /\ out # <<>>
  /\ out[1].sent = "unknown"
  /\ out[1].tries = 1
  /\ last_mark # <<>>
  /\ \A k \in DOMAIN last_mark : clock - last_mark[k] <= Cooldown

\* a mark of the identity for the agent's room and the current UTC day is in
\* the store
MarkedToday(sid) ==
  \E i \in 1..Len(attendance) :
    /\ attendance[i].student_id = sid
    /\ attendance[i].room_id = RoomId
    /\ UtcDay(attendance[i].timestamp) = UtcDay(clock)

\* C19: in a loop that is not stopped and whose store is reachable after an
\* outage, an identity of the roster that is matched in frame after frame
\* has a mark for the agent's room and the current day stored in the end.
EventuallyMarked ==
  \A sid \in {"S2", "S3"} :
    []<>(out # <<>> /\ out[1].student_id = <<sid>>) => <>MarkedToday(sid)

\* a mark was stored by the submission made once the cooldown of an attempt
\* at Cooldown + 1 had passed, an attempt that stored nothing
EventuallyMarkedWitness ==
  /\ out # <<>>
  /\ out[1].sent = "mark"
  /\ out[1].prior = <<Cooldown + 1>>
  /\ out[1].outcome = "ok"
  /\ branch = "created"
  /\ resp # <<>>
  /\ resp[1].student_id = out[1].student_id[1]
  /\ resp[1].timestamp = clock
  /\ MarkedToday(out[1].student_id[1])

====
